---- MODULE Spec2Model ----
(***************************************************************************)
(* Model of the repository synchronisation engine of codesync: the two     *)
(* deploy pipelines (pushToGithub and deployChanges) running against one   *)
(* remote Git object store (blob -> tree -> commit -> ref), and the builds *)
(* of the path tree from a flat listing (buildFileTree, buildTree,         *)
(* getFileTree) with transformFileNodeToGitHubFile as their inverse, and   *)
(* the Workspace component that calls them: its deploy handler and the     *)
(* loading of the selected file's content.                                 *)
(*                                                                         *)
(* Optional values are sequences of length at most one: <<>> is an absent  *)
(* value (undefined / null), <<v>> a present one.  Paths and contents are  *)
(* strings, written as sequences of one-character strings.                 *)
(***************************************************************************)
EXTENDS Integers, Sequences, FiniteSets, TLC

\* ------------------------------------------------------------------ bounds

\* Longest change list handed to one Deploy call.
MaxChanges == 2

\* Longest flat listing handed to one build of the path tree.
MaxListing == 3

\* Most loads of a file's content in flight at once in the Workspace.
MaxLoads == 3

\* ------------------------------------------------------------------ values

None == <<>>

Some(v) == <<v>>

Calls == {1, 2}

DEFAULT_BRANCH == "main"

Branches == {"main", "master"}

\* A file path is a sequence of characters.
PathA == <<"a">>
PathB == <<"b">>
PathC == <<"c">>
SlashA == <<"/", "a">>
DotDot == <<".", ".">>

\* Paths already in normal form, and paths that are not.
PlainPaths == {PathA, PathC}

RawPaths == PlainPaths \cup {SlashA, DotDot}

\* content?: absent, the empty string, or some text.
Contents == {None, Some(""), Some("x")}

\* type?: the code only tests type === "delete"; "upsert" stands for create,
\* update and an omitted type, which it never tells apart.
ChangeKinds == {"upsert", "delete"}

\* The proposed changes: upserts and deletions of plain paths with every
\* content, and an upsert of each path that is not in normal form.
Changes ==
    {ch \in [path : RawPaths, content : Contents, type : ChangeKinds] :
        \/ ch.path \in PlainPaths /\ (ch.type = "delete" => ch.content # Some(""))
        \/ ch.type = "upsert" /\ ch.content = Some("x")}

RECURSIVE SeqsUpTo(_, _)
SeqsUpTo(S, n) ==
    IF n = 0 THEN {<<>>}
    ELSE LET shorter == SeqsUpTo(S, n - 1)
         IN  shorter \cup {Append(s, x) : s \in {t \in shorter : Len(t) = n - 1}, x \in S}

\* ------------------------------------------------------------ sanitizePath

RECURSIVE StripLeadingSlashes(_)
StripLeadingSlashes(path) ==
    IF path # <<>> /\ Head(path) = "/" THEN StripLeadingSlashes(Tail(path)) ELSE path

\* path.split("/"): the segments between slashes (one more than the slashes).
RECURSIVE SplitSlash(_)
SplitSlash(path) ==
    IF path = <<>> THEN << <<>> >>
    ELSE LET rest == SplitSlash(Tail(path))
         IN  IF Head(path) = "/" THEN << <<>> >> \o rest
             ELSE << <<Head(path)>> \o Head(rest) >> \o Tail(rest)

HasDotDotSegment(path) ==
    \E i \in 1..Len(SplitSlash(path)) : SplitSlash(path)[i] = DotDot

\* The message of the error sanitizePath throws for a path it rejects.
SanitizePathError(path) ==
    IF path = <<>> THEN "Each file must include a valid path."
    ELSE IF StripLeadingSlashes(path) = <<>> THEN "File paths cannot be empty."
    ELSE "File paths cannot traverse directories."

\* sanitizePath: None when it throws, Some(normalized) otherwise.
sanitizePath(path) ==
    IF path = <<>> THEN None
    ELSE LET normalized == StripLeadingSlashes(path)
         IN  IF normalized = <<>> THEN None
             ELSE IF HasDotDotSegment(normalized) THEN None
             ELSE Some(normalized)

\* ------------------------------------------------------------- remote store

\* A blob's identifier is a hash of its content alone.
BlobSha(content) == <<"blob", content>>

\* sha: null in a tree entry.
NullSha == <<"null">>

EmptyTree == [p \in {} |-> NullSha]

\* One entry of git.createTree laid over a tree: a null sha removes the path.
OverlayEntry(tree, entry) ==
    IF entry.sha = NullSha
    THEN [p \in (DOMAIN tree) \ {entry.path} |-> tree[p]]
    ELSE [p \in (DOMAIN tree) \cup {entry.path} |->
              IF p = entry.path THEN entry.sha ELSE tree[p]]

RECURSIVE OverlayEntries(_, _)
OverlayEntries(tree, entries) ==
    IF entries = <<>> THEN tree
    ELSE OverlayEntries(OverlayEntry(tree, Head(entries)), Tail(entries))

\* Mutant of GitCreateTree: base_tree is left out of the request.
GitCreateTree_NoBaseTree(baseTree, entries) == OverlayEntries(EmptyTree, entries)

\* git.createTree({base_tree?, tree}): the base tree (the empty tree when no
\* base_tree is given) with the entries laid over it.
GitCreateTree(baseTree, entries) ==
    OverlayEntries(IF baseTree = None THEN EmptyTree ELSE baseTree[1], entries)

Tree0 == [p \in {PathA, PathB} |-> IF p = PathA THEN BlobSha("o1") ELSE BlobSha("o2")]

Tree1 == [p \in {PathA, PathB} |-> IF p = PathA THEN BlobSha("o3") ELSE BlobSha("o2")]

\* The history of a repository that already has commits: 1 <- 2.
InitCommits == << [tree |-> Tree0, parents |-> None], [tree |-> Tree1, parents |-> Some(1)] >>

NoRefs == [b \in Branches |-> None]

RemoteStates ==
    {[repoExists |-> FALSE, defaultBranch |-> DEFAULT_BRANCH, refs |-> NoRefs, commits |-> <<>>],
     [repoExists |-> TRUE, defaultBranch |-> DEFAULT_BRANCH, refs |-> NoRefs, commits |-> <<>>]}
    \cup
    {st \in [repoExists : {TRUE}, defaultBranch : Branches,
              refs : [Branches -> {None, Some(1), Some(2)}], commits : {InitCommits}] :
        st.refs[st.defaultBranch] # None}

VARIABLES
    repoExists,       \* the repository exists on the remote
    defaultBranch,    \* repos.get().default_branch
    refs,             \* branch name -> optional commit id
    commits,          \* commit id (index) -> [tree, parents]
    input,            \* per call: [impl, accessToken, changes]
    pc,               \* per call: the remote call it is awaiting
    files,            \* pushToGithub: the sanitized files; first draft: changes
    latestCommitSha,  \* latestCommitSha / currentCommitSha
    baseTreeSha,      \* baseTreeSha / currentCommit.tree.sha
    pending,          \* the createBlob calls of a Promise.all in flight
    treeEntries,      \* the entries handed to createTree
    newTree,          \* tree.data.sha / newTree.sha
    newCommit,        \* commit.data.sha / newCommit.sha
    result,           \* the value the call returned
    log,              \* per call: the remote calls it issued, in order
    builder,          \* the path-tree build that runs: buildFileTree, buildTree, getFileTree
    listing,          \* its input: paths / data.tree, a sequence of [path, type]
    phase,            \* walk -> built -> transformed
    cursor,           \* the items of the listing the forEach has gone through
    root,             \* buildFileTree / buildTree: root; then the tree returned
    heap,             \* getFileTree: the FileNode objects, by reference
    fileTree,         \* getFileTree: tree, the references of the top level
    dirMap,           \* getFileTree: dirMap, path -> reference
    transformed,      \* the result of transformFileNodeToGitHubFile
    component,        \* the Workspace component that is mounted
    selectedFile,     \* useState: the path of the selected file, if any
    fileContent,      \* useState: the text shown for the selected file
    loadingFile,      \* useState: the spinner of the file view
    loads,            \* the getFileContent calls in flight: the path of each
    pendingChanges,   \* useState: the changes proposed and not yet deployed
    isDeploying,      \* useState: a deploy is in progress
    deployResult,     \* useState: the message of the last deploy, if any
    showReview,       \* useState: the review dialog is open
    handler,          \* the deploy handler: idle, awaiting the deploy, the reload
    isSendingMessage  \* useState: a chat request is in flight

remote == <<repoExists, defaultBranch, refs, commits>>

locals == <<files, latestCommitSha, baseTreeSha, pending, treeEntries, newTree, newCommit>>

\* The state of the path-tree build.
treeVars == <<builder, listing, phase, cursor, root, heap, fileTree, dirMap, transformed>>

\* The state of the Deploy calls and of the remote.
deployVars == <<repoExists, defaultBranch, refs, commits, input, pc, files, latestCommitSha,
                baseTreeSha, pending, treeEntries, newTree, newCommit, result, log>>

\* The file view of the Workspace component.
viewVars == <<selectedFile, fileContent, loadingFile, loads>>

\* The chat and the deploy handler of the Workspace component.
handlerVars == <<pendingChanges, isDeploying, deployResult, showReview, handler,
                 isSendingMessage>>

\* The state of the Workspace component.
wsVars == <<component, selectedFile, fileContent, loadingFile, loads, pendingChanges,
            isDeploying, deployResult, showReview, handler, isSendingMessage>>

vars == <<repoExists, defaultBranch, refs, commits, input, pc, files, latestCommitSha,
          baseTreeSha, pending, treeEntries, newTree, newCommit, result, log,
          builder, listing, phase, cursor, root, heap, fileTree, dirMap, transformed,
          component, selectedFile, fileContent, loadingFile, loads, pendingChanges,
          isDeploying, deployResult, showReview, handler, isSendingMessage>>

\* a is b or one of b's ancestors.
RECURSIVE IsAncestor(_, _)
IsAncestor(a, b) ==
    \/ a = b
    \/ /\ commits[b].parents # None
       /\ IsAncestor(a, commits[b].parents[1])

\* What a remote call answers: "ok" or the message of the error it throws.
Ok == "ok"

NotFound == "Not Found"

Unavailable == "Service Unavailable"

\* git.getRef: 404 when the branch (or the repository) does not exist.
GetRefStatus(branch) ==
    IF repoExists /\ refs[branch] # None THEN Ok ELSE NotFound

\* repos.get.
ReposGetStatus == IF repoExists THEN Ok ELSE NotFound

\* repos.createForAuthenticatedUser.
CreateRepoStatus == IF repoExists THEN "name already exists on this account" ELSE Ok

\* git.createBlob: a blob needs content.
CreateBlobStatus(content) == IF content = None THEN "Invalid request" ELSE Ok

\* git.updateRef, not forced: only a fast-forward of an existing ref.
UpdateRefStatus(branch, sha) ==
    IF ~repoExists THEN NotFound
    ELSE IF refs[branch] = None THEN "Reference does not exist"
    ELSE IF IsAncestor(refs[branch][1], sha) THEN Ok
    ELSE "Update is not a fast forward"

\* git.createRef: only for a ref that does not exist yet.
CreateRefStatus(branch) ==
    IF ~repoExists THEN NotFound
    ELSE IF refs[branch] # None THEN "Reference already exists"
    ELSE Ok

\* The answer the caller sees: the remote's, unless the call did not get
\* through (network failure, rate limit, 5xx).
Observed(up, status) == IF up THEN status ELSE Unavailable

\* ------------------------------------------------------------------ inputs

\* FileToCreate has no change kind: every file of pushToGithub is an upsert.
PushChanges == {ch \in Changes : ch.type = "upsert"}

\* accessToken: whether the session of the caller carries an access token.
PushInputs ==
    [impl : {"push"}, accessToken : BOOLEAN, changes : SeqsUpTo(PushChanges, MaxChanges)]

DeployInputs ==
    [impl : {"deploy"}, accessToken : BOOLEAN, changes : SeqsUpTo(Changes, MaxChanges)]

\* The first draft of deployChanges takes Array<{path, content: string}>:
\* every change writes a file and has content.
DraftChanges == {ch \in PushChanges : ch.content # None}

DraftInputs ==
    [impl : {"draft"}, accessToken : BOOLEAN, changes : SeqsUpTo(DraftChanges, MaxChanges)]

\* Both versions of deployChanges; they share the resolution of the branch,
\* createTree, createCommit and the update of the ref.
DeployImpls == {"deploy", "draft"}

\* The implementations that create their blobs with one Promise.all.
ParallelBlobImpls == {"push", "draft"}

\* A call slot that is never invoked.
Idle == [impl |-> "none", accessToken |-> FALSE, changes |-> <<>>]

\* What is chosen when a call starts: the repository name.
RepoNames == {"", "repo"}

\* A remote call a Deploy issued, with the answer it got.
Call(op, ref, status) == [op |-> op, ref |-> ref, status |-> status]

\* The results of a call.  errorPath is the path written into the error
\* message, when the message has one.
Failure(error) ==
    [success |-> FALSE, error |-> Some(error), errorPath |-> None, repoUrl |-> None,
     commitSha |-> None]

\* The failure whose message is error followed by a path.
FailureAt(error, path) ==
    [success |-> FALSE, error |-> Some(error), errorPath |-> Some(path), repoUrl |-> None,
     commitSha |-> None]

\* pushToGithub: {success: true, repoUrl, commitSha}.
Success(sha) ==
    [success |-> TRUE, error |-> None, errorPath |-> None, repoUrl |-> Some("repoUrl"),
     commitSha |-> sha]

\* deployChanges: {success: true}.
DeploySuccess ==
    [success |-> TRUE, error |-> None, errorPath |-> None, repoUrl |-> None,
     commitSha |-> None]

\* The call returns r to its caller.
Return(c, r) ==
    /\ result' = [result EXCEPT ![c] = Some(r)]
    /\ pc' = [pc EXCEPT ![c] = "done"]

Goto(c, next) ==
    /\ pc' = [pc EXCEPT ![c] = next]
    /\ UNCHANGED result

Logged(c, calls) == log' = [log EXCEPT ![c] = @ \o calls]

InitLocals ==
    /\ pc = [c \in Calls |-> IF input[c].impl = "none" THEN "done" ELSE "start"]
    /\ files = [c \in Calls |->
            IF input[c].impl = "draft"
            THEN [i \in 1..Len(input[c].changes) |->
                     [path |-> input[c].changes[i].path,
                      content |-> input[c].changes[i].content]]
            ELSE <<>>]
    /\ latestCommitSha = [c \in Calls |-> None]
    /\ baseTreeSha = [c \in Calls |-> None]
    /\ pending = [c \in Calls |-> {}]
    /\ treeEntries = [c \in Calls |-> <<>>]
    /\ newTree = [c \in Calls |-> None]
    /\ newCommit = [c \in Calls |-> None]
    /\ result = [c \in Calls |-> None]
    /\ log = [c \in Calls |-> <<>>]

InitRemote ==
    \E st \in RemoteStates :
        /\ repoExists = st.repoExists
        /\ defaultBranch = st.defaultBranch
        /\ refs = st.refs
        /\ commits = st.commits

\* new Map(): no path has a reference.
NoMap == [p \in {} |-> 0]

\* No build of the path tree runs.
InitTreeIdle ==
    /\ builder = "none"
    /\ listing = <<>>
    /\ phase = "built"
    /\ cursor = 0
    /\ root = <<>>
    /\ heap = <<>>
    /\ fileTree = <<>>
    /\ dirMap = NoMap
    /\ transformed = <<>>

\* The two versions of the Workspace component.
Components == {"Workspace.tsx", "part_011"}

\* No Workspace component is mounted.
InitWorkspaceIdle ==
    /\ component = "none"
    /\ selectedFile = None
    /\ fileContent = ""
    /\ loadingFile = FALSE
    /\ loads = <<>>
    /\ pendingChanges = <<>>
    /\ isDeploying = FALSE
    /\ deployResult = None
    /\ showReview = FALSE
    /\ handler = "idle"
    /\ isSendingMessage = FALSE

\* One Deploy call, over every change list up to MaxChanges.
Init ==
    /\ InitRemote
    /\ \E in \in PushInputs \cup DeployInputs \cup DraftInputs :
         input = [c \in Calls |-> IF c = 1 THEN in ELSE Idle]
    /\ InitLocals
    /\ InitTreeIdle
    /\ InitWorkspaceIdle

\* Single-change calls on plain paths, for runs of two concurrent calls.
ConcInputs ==
    {in \in PushInputs \cup DeployInputs :
        /\ in.accessToken
        /\ Len(in.changes) = 1
        /\ in.changes[1].path \in PlainPaths
        /\ in.changes[1].content = (IF in.changes[1].type = "delete" THEN None ELSE Some("x"))}

\* Two concurrent Deploy calls on the same repository.
InitConc ==
    /\ InitRemote
    /\ input \in [Calls -> ConcInputs]
    /\ InitLocals
    /\ InitTreeIdle
    /\ InitWorkspaceIdle

\* ------------------------------------------------------------ pushToGithub

Unset == <<"unset">>

\* files.map(sanitizePath): throws at the first path sanitizePath rejects.
SanitizedFiles(changes) ==
    [i \in 1..Len(changes) |->
        [path |-> sanitizePath(changes[i].path)[1], content |-> changes[i].content]]

AllPathsValid(changes) ==
    \A i \in 1..Len(changes) : sanitizePath(changes[i].path) # None

\* The first path of the list that sanitizePath rejects.
FirstInvalidPath(changes) ==
    LET i == CHOOSE k \in 1..Len(changes) :
                 /\ sanitizePath(changes[k].path) = None
                 /\ \A j \in 1..(k - 1) : sanitizePath(changes[j].path) # None
    IN  changes[i].path

\* auth() and the parameter checks.
PushStart(c) ==
    /\ pc[c] = "start"
    /\ input[c].impl = "push"
    /\ \E repoName \in RepoNames :
         IF ~input[c].accessToken THEN Return(c, Failure("You must connect your GitHub account to deploy."))
         ELSE IF repoName = "" THEN Return(c, Failure("A repository name is required."))
         ELSE IF Len(input[c].changes) = 0
              THEN Return(c, Failure("At least one file must be provided."))
         ELSE Goto(c, "getAuthenticated")
    /\ UNCHANGED <<remote, input, treeVars, wsVars, locals, log>>

\* users.getAuthenticated(), then the paths are sanitized.
PushGetAuthenticated(c) ==
    /\ pc[c] = "getAuthenticated"
    /\ \E up \in BOOLEAN :
         LET status == Observed(up, Ok)
         IN  /\ Logged(c, <<Call("getAuthenticated", "", status)>>)
             /\ IF status # Ok THEN Return(c, Failure(status)) /\ UNCHANGED files
                ELSE IF ~AllPathsValid(input[c].changes)
                     THEN /\ Return(c, Failure(SanitizePathError(
                                                   FirstInvalidPath(input[c].changes))))
                          /\ UNCHANGED files
                ELSE /\ files' = [files EXCEPT ![c] = SanitizedFiles(input[c].changes)]
                     /\ Goto(c, "reposGet")
    /\ UNCHANGED <<remote, input, treeVars, wsVars, latestCommitSha, baseTreeSha, pending, treeEntries,
                   newTree, newCommit>>

\* ensureRepository: repos.get; only a 404 leads to the creation.
EnsureRepositoryGet(c) ==
    /\ pc[c] = "reposGet"
    /\ \E up \in BOOLEAN :
         LET status == Observed(up, ReposGetStatus)
         IN  /\ Logged(c, <<Call("repos.get", "", status)>>)
             /\ IF status = Ok THEN Goto(c, "getRef")
                ELSE IF status = NotFound THEN Goto(c, "createRepo")
                ELSE Return(c, Failure(status))
    /\ UNCHANGED <<remote, input, treeVars, wsVars, locals>>

\* ensureRepository: the repository was not found and is created, without
\* an initial commit (auto_init: false).
EnsureRepositoryCreate(c) ==
    /\ pc[c] = "createRepo"
    /\ \E up \in BOOLEAN :
         LET status == Observed(up, CreateRepoStatus)
         IN  /\ Logged(c, <<Call("createForAuthenticatedUser", "", status)>>)
             /\ IF status = Ok
                THEN repoExists' = TRUE /\ Goto(c, "getRef")
                ELSE Return(c, Failure(status)) /\ UNCHANGED repoExists
    /\ UNCHANGED <<defaultBranch, refs, commits, input, treeVars, wsVars, locals>>

\* Promise.all(files.map(createBlob)): every createBlob is started at once;
\* over no file at all it resolves at once.
StartBlobs(c) ==
    /\ pending' = [pending EXCEPT ![c] = 1..Len(files[c])]
    /\ treeEntries' = [treeEntries EXCEPT ![c] =
            [i \in 1..Len(files[c]) |-> [path |-> files[c][i].path, sha |-> Unset]]]
    /\ Goto(c, IF Len(files[c]) = 0 THEN "createTree" ELSE "createBlob")

\* getLatestCommitInfo: getRef of heads/main; a 404 means "no commits yet".
GetLatestCommitInfoRef(c) ==
    /\ pc[c] = "getRef"
    /\ input[c].impl = "push"
    /\ \E up \in BOOLEAN :
         LET status == Observed(up, GetRefStatus(DEFAULT_BRANCH))
         IN  /\ Logged(c, <<Call("getRef", DEFAULT_BRANCH, status)>>)
             /\ IF status = Ok
                THEN /\ latestCommitSha' = [latestCommitSha EXCEPT ![c] = refs[DEFAULT_BRANCH]]
                     /\ Goto(c, "getCommit")
                     /\ UNCHANGED <<pending, treeEntries>>
                ELSE IF status = NotFound
                     THEN StartBlobs(c) /\ UNCHANGED latestCommitSha
                ELSE /\ Return(c, Failure(status))
                     /\ UNCHANGED <<latestCommitSha, pending, treeEntries>>
    /\ UNCHANGED <<remote, input, treeVars, wsVars, files, baseTreeSha, newTree, newCommit>>

\* getLatestCommitInfo: getCommit of the head gives the base tree.
GetLatestCommitInfoCommit(c) ==
    /\ pc[c] = "getCommit"
    /\ input[c].impl = "push"
    /\ \E up \in BOOLEAN :
         LET status == Observed(up, Ok)
         IN  /\ Logged(c, <<Call("getCommit", "", status)>>)
             /\ IF status = Ok
                THEN /\ baseTreeSha' = [baseTreeSha EXCEPT ![c] =
                             Some(commits[latestCommitSha[c][1]].tree)]
                     /\ StartBlobs(c)
                ELSE /\ Return(c, Failure(status))
                     /\ UNCHANGED <<baseTreeSha, pending, treeEntries>>
    /\ UNCHANGED <<remote, input, treeVars, wsVars, files, latestCommitSha, newTree, newCommit>>

\* The createBlob calls of the Promise.all that had not settled when it
\* rejected: they were issued, their answers are dropped.
RECURSIVE Dropped(_)
Dropped(n) == IF n = 0 THEN <<>> ELSE Append(Dropped(n - 1), Call("createBlob", "", "dropped"))

\* Mutant of PushBlobSettled: Promise.allSettled instead of Promise.all, a
\* rejected createBlob leaves its entry without a sha and the rest goes on.
PushBlobSettled_AllSettled(c) ==
    /\ pc[c] = "createBlob"
    /\ input[c].impl \in ParallelBlobImpls
    /\ \E i \in pending[c], up \in BOOLEAN :
         LET status == Observed(up, CreateBlobStatus(files[c][i].content))
         IN  /\ treeEntries' = [treeEntries EXCEPT ![c][i].sha =
                     IF status = Ok THEN BlobSha(files[c][i].content[1]) ELSE Unset]
             /\ pending' = [pending EXCEPT ![c] = @ \ {i}]
             /\ Logged(c, <<Call("createBlob", "", status)>>)
             /\ IF pending[c] = {i} THEN Goto(c, "createTree") ELSE Goto(c, "createBlob")
    /\ UNCHANGED <<remote, input, treeVars, wsVars, files, latestCommitSha, baseTreeSha, newTree, newCommit>>

\* Mutant of PushBlobSettled: Promise.race instead of Promise.all, the tree
\* is composed as soon as the first createBlob has settled.
PushBlobSettled_Race(c) ==
    /\ pc[c] = "createBlob"
    /\ input[c].impl \in ParallelBlobImpls
    /\ \E i \in pending[c], up \in BOOLEAN :
         LET status == Observed(up, CreateBlobStatus(files[c][i].content))
         IN  IF status = Ok
             THEN /\ treeEntries' = [treeEntries EXCEPT ![c][i].sha =
                          BlobSha(files[c][i].content[1])]
                  /\ pending' = [pending EXCEPT ![c] = @ \ {i}]
                  /\ Logged(c, <<Call("createBlob", "", status)>>)
                  /\ Goto(c, "createTree")
             ELSE /\ Return(c, Failure(status))
                  /\ Logged(c, <<Call("createBlob", "", status)>>
                                 \o Dropped(Cardinality(pending[c]) - 1))
                  /\ pending' = [pending EXCEPT ![c] = {}]
                  /\ UNCHANGED treeEntries
    /\ UNCHANGED <<remote, input, treeVars, wsVars, files, latestCommitSha, baseTreeSha, newTree, newCommit>>

\* Mutant of PushBlobSettled: the sha of a settled createBlob is pushed to
\* the entries in the order of completion, into the first entry without one.
PushBlobSettled_CompletionOrder(c) ==
    /\ pc[c] = "createBlob"
    /\ input[c].impl \in ParallelBlobImpls
    /\ \E i \in pending[c], up \in BOOLEAN :
         LET status == Observed(up, CreateBlobStatus(files[c][i].content))
             first == CHOOSE k \in 1..Len(treeEntries[c]) :
                          /\ treeEntries[c][k].sha = Unset
                          /\ \A j \in 1..(k - 1) : treeEntries[c][j].sha # Unset
         IN  IF status = Ok
             THEN /\ treeEntries' = [treeEntries EXCEPT ![c][first].sha =
                          BlobSha(files[c][i].content[1])]
                  /\ pending' = [pending EXCEPT ![c] = @ \ {i}]
                  /\ Logged(c, <<Call("createBlob", "", status)>>)
                  /\ IF pending[c] = {i} THEN Goto(c, "createTree") ELSE Goto(c, "createBlob")
             ELSE /\ Return(c, Failure(status))
                  /\ Logged(c, <<Call("createBlob", "", status)>>
                                 \o Dropped(Cardinality(pending[c]) - 1))
                  /\ pending' = [pending EXCEPT ![c] = {}]
                  /\ UNCHANGED treeEntries
    /\ UNCHANGED <<remote, input, treeVars, wsVars, files, latestCommitSha, baseTreeSha, newTree, newCommit>>

\* One createBlob of the Promise.all settles.  A rejection rejects the whole
\* Promise.all at once.
PushBlobSettled(c) ==
    /\ pc[c] = "createBlob"
    /\ input[c].impl \in ParallelBlobImpls
    /\ \E i \in pending[c], up \in BOOLEAN :
         LET status == Observed(up, CreateBlobStatus(files[c][i].content))
         IN  IF status = Ok
             THEN /\ treeEntries' = [treeEntries EXCEPT ![c][i].sha =
                          BlobSha(files[c][i].content[1])]
                  /\ pending' = [pending EXCEPT ![c] = @ \ {i}]
                  /\ Logged(c, <<Call("createBlob", "", status)>>)
                  /\ IF pending[c] = {i} THEN Goto(c, "createTree") ELSE Goto(c, "createBlob")
             ELSE /\ Return(c, Failure(status))
                  /\ Logged(c, <<Call("createBlob", "", status)>>
                                 \o Dropped(Cardinality(pending[c]) - 1))
                  /\ pending' = [pending EXCEPT ![c] = {}]
                  /\ UNCHANGED treeEntries
    /\ UNCHANGED <<remote, input, treeVars, wsVars, files, latestCommitSha, baseTreeSha, newTree, newCommit>>

\* git.createTree over the base tree, when there is one.
PushCreateTree(c) ==
    /\ pc[c] = "createTree"
    /\ input[c].impl = "push"
    /\ \E up \in BOOLEAN :
         LET status == Observed(up, Ok)
         IN  /\ Logged(c, <<Call("createTree", "", status)>>)
             /\ IF status = Ok
                THEN /\ newTree' = [newTree EXCEPT ![c] =
                             Some(GitCreateTree(baseTreeSha[c], treeEntries[c]))]
                     /\ Goto(c, "createCommit")
                ELSE Return(c, Failure(status)) /\ UNCHANGED newTree
    /\ UNCHANGED <<remote, input, treeVars, wsVars, files, latestCommitSha, baseTreeSha, pending, treeEntries,
                   newCommit>>

\* git.createCommit with parents [latestCommitSha] or [].
PushCreateCommit(c) ==
    /\ pc[c] = "createCommit"
    /\ input[c].impl = "push"
    /\ \E up \in BOOLEAN :
         LET status == Observed(up, Ok)
         IN  /\ Logged(c, <<Call("createCommit", "", status)>>)
             /\ IF status = Ok
                THEN /\ commits' = Append(commits, [tree |-> newTree[c][1],
                                                    parents |-> latestCommitSha[c]])
                     /\ newCommit' = [newCommit EXCEPT ![c] = Some(Len(commits) + 1)]
                     /\ Goto(c, "upsertRef")
                ELSE Return(c, Failure(status)) /\ UNCHANGED <<commits, newCommit>>
    /\ UNCHANGED <<repoExists, defaultBranch, refs, input, treeVars, wsVars, files, latestCommitSha, baseTreeSha,
                   pending, treeEntries, newTree>>

\* upsertBranchRef(branch, sha, branchExists): updateRef (force: false) of an
\* existing branch, createRef otherwise.
upsertBranchRef(c, branch, sha, branchExists) ==
    \E up \in BOOLEAN :
        LET op == IF branchExists THEN "updateRef" ELSE "createRef"
            status == Observed(up, IF branchExists THEN UpdateRefStatus(branch, sha[1])
                                   ELSE CreateRefStatus(branch))
        IN  /\ Logged(c, <<Call(op, branch, status)>>)
            /\ IF status = Ok
               THEN /\ refs' = [refs EXCEPT ![branch] = sha]
                    /\ Return(c, Success(sha))
               ELSE Return(c, Failure(status)) /\ UNCHANGED refs

PushUpsertBranchRef(c) ==
    /\ pc[c] = "upsertRef"
    /\ upsertBranchRef(c, DEFAULT_BRANCH, newCommit[c], latestCommitSha[c] # None)
    /\ UNCHANGED <<repoExists, defaultBranch, commits, input, treeVars, wsVars, locals>>

\* ----------------------------------------------------------- deployChanges

\* Mutant of DeployStart: the session is not looked at.
DeployStart_NoSessionCheck(c) ==
    /\ pc[c] = "start"
    /\ input[c].impl \in DeployImpls
    /\ Goto(c, "getRef")
    /\ UNCHANGED <<remote, input, treeVars, wsVars, locals, log>>

\* auth(): without an access token the call returns at once.
DeployStart(c) ==
    /\ pc[c] = "start"
    /\ input[c].impl \in DeployImpls
    /\ IF ~input[c].accessToken THEN Return(c, Failure("Unauthorized"))
       ELSE Goto(c, "getRef")
    /\ UNCHANGED <<remote, input, treeVars, wsVars, locals, log>>

\* getRef of heads/main; on any failure the catch falls back to the default
\* branch.
DeployGetRef(c) ==
    /\ pc[c] = "getRef"
    /\ input[c].impl \in DeployImpls
    /\ \E up \in BOOLEAN :
         LET status == Observed(up, GetRefStatus("main"))
         IN  /\ Logged(c, <<Call("getRef", "main", status)>>)
             /\ IF status = Ok
                THEN /\ latestCommitSha' = [latestCommitSha EXCEPT ![c] = refs["main"]]
                     /\ Goto(c, "getCommit")
                ELSE Goto(c, "resolveReposGet") /\ UNCHANGED latestCommitSha
    /\ UNCHANGED <<remote, input, treeVars, wsVars, files, baseTreeSha, pending, treeEntries, newTree, newCommit>>

\* The catch of getRef: repos.get for the default branch.
DeployResolveReposGet(c) ==
    /\ pc[c] = "resolveReposGet"
    /\ \E up \in BOOLEAN :
         LET status == Observed(up, ReposGetStatus)
         IN  /\ Logged(c, <<Call("repos.get", "", status)>>)
             /\ IF status = Ok THEN Goto(c, "getRefDefault")
                ELSE Return(c, Failure(status))
    /\ UNCHANGED <<remote, input, treeVars, wsVars, locals>>

\* The catch of getRef: getRef of heads/<default_branch>.
DeployGetRefDefault(c) ==
    /\ pc[c] = "getRefDefault"
    /\ \E up \in BOOLEAN :
         LET status == Observed(up, GetRefStatus(defaultBranch))
         IN  /\ Logged(c, <<Call("getRef", defaultBranch, status)>>)
             /\ IF status = Ok
                THEN /\ latestCommitSha' = [latestCommitSha EXCEPT ![c] = refs[defaultBranch]]
                     /\ Goto(c, "getCommit")
                ELSE Return(c, Failure(status)) /\ UNCHANGED latestCommitSha
    /\ UNCHANGED <<remote, input, treeVars, wsVars, files, baseTreeSha, pending, treeEntries, newTree, newCommit>>

\* Where the loop over the changes stands once n entries are built.
AfterEntries(c, n) == IF n = Len(input[c].changes) THEN "createTree" ELSE "changes"

DeployGetCommit(c) ==
    /\ pc[c] = "getCommit"
    /\ input[c].impl \in DeployImpls
    /\ \E up \in BOOLEAN :
         LET status == Observed(up, Ok)
         IN  /\ Logged(c, <<Call("getCommit", "", status)>>)
             /\ IF status = Ok
                THEN /\ baseTreeSha' = [baseTreeSha EXCEPT ![c] =
                             Some(commits[latestCommitSha[c][1]].tree)]
                     /\ IF input[c].impl = "draft" THEN StartBlobs(c)
                        ELSE /\ Goto(c, AfterEntries(c, 0))
                             /\ UNCHANGED <<pending, treeEntries>>
                ELSE /\ Return(c, Failure(status))
                     /\ UNCHANGED <<baseTreeSha, pending, treeEntries>>
    /\ UNCHANGED <<remote, input, treeVars, wsVars, files, latestCommitSha, newTree, newCommit>>

\* Mutant of MissingContent: "!change.content", which takes the empty string
\* for a missing content.
MissingContent_Falsy(content) == content \in {None, Some("")}

\* typeof change.content !== "string".
MissingContent(content) == content = None

\* The loop body of deployChanges, given the sha a delete entry carries and
\* what a failed createBlob does.
DeployChangeBody(c, deleteSha, swallowBlobError) ==
    /\ pc[c] = "changes"
    /\ LET change == input[c].changes[Len(treeEntries[c]) + 1]
           push(sha) ==
               /\ treeEntries' = [treeEntries EXCEPT ![c] =
                      Append(@, [path |-> change.path, sha |-> sha])]
               /\ Goto(c, AfterEntries(c, Len(treeEntries[c]) + 1))
       IN  IF change.type = "delete"
           THEN push(deleteSha) /\ UNCHANGED log
           ELSE IF MissingContent(change.content)
           THEN /\ Return(c, FailureAt("Missing content for change at", change.path))
                /\ UNCHANGED <<treeEntries, log>>
           ELSE \E up \in BOOLEAN :
                  LET status == Observed(up, Ok)
                  IN  /\ Logged(c, <<Call("createBlob", "", status)>>)
                      /\ IF status = Ok THEN push(BlobSha(change.content[1]))
                         ELSE IF swallowBlobError THEN push(Unset)
                         ELSE Return(c, Failure(status)) /\ UNCHANGED treeEntries
    /\ UNCHANGED <<remote, input, treeVars, wsVars, files, latestCommitSha, baseTreeSha, pending, newTree,
                   newCommit>>

\* Mutant of DeployChange: the error of a failed createBlob is swallowed and
\* the entry goes on without a sha.
DeployChange_SwallowsBlobError(c) == DeployChangeBody(c, NullSha, TRUE)

\* Mutant of DeployChange: a delete entry carries the blob of the empty
\* string instead of a null reference.
DeployChange_DeleteWritesEmptyFile(c) == DeployChangeBody(c, BlobSha(""), FALSE)

\* Mutant of DeployChange: a blob is created for a delete entry too, before
\* the entry with sha null is pushed.
DeployChange_DeleteCreatesBlob(c) ==
    /\ pc[c] = "changes"
    /\ LET change == input[c].changes[Len(treeEntries[c]) + 1]
           push(sha) ==
               /\ treeEntries' = [treeEntries EXCEPT ![c] =
                      Append(@, [path |-> change.path, sha |-> sha])]
               /\ Goto(c, AfterEntries(c, Len(treeEntries[c]) + 1))
       IN  IF change.type # "delete" /\ MissingContent(change.content)
           THEN /\ Return(c, FailureAt("Missing content for change at", change.path))
                /\ UNCHANGED <<treeEntries, log>>
           ELSE \E up \in BOOLEAN :
                  LET status == Observed(up, Ok)
                  IN  /\ Logged(c, <<Call("createBlob", "", status)>>)
                      /\ IF status = Ok
                         THEN push(IF change.type = "delete" THEN NullSha
                                   ELSE BlobSha(change.content[1]))
                         ELSE Return(c, Failure(status)) /\ UNCHANGED treeEntries
    /\ UNCHANGED <<remote, input, treeVars, wsVars, files, latestCommitSha, baseTreeSha, pending, newTree,
                   newCommit>>

\* One iteration of "for (const change of changes)": a delete becomes an
\* entry with sha null, anything else needs content and becomes a blob.
DeployChange(c) == DeployChangeBody(c, NullSha, FALSE)

\* git.createTree with base_tree: currentCommit.tree.sha.
DeployCreateTree(c) ==
    /\ pc[c] = "createTree"
    /\ input[c].impl \in DeployImpls
    /\ \E up \in BOOLEAN :
         LET status == Observed(up, Ok)
         IN  /\ Logged(c, <<Call("createTree", "", status)>>)
             /\ IF status = Ok
                THEN /\ newTree' = [newTree EXCEPT ![c] =
                             Some(GitCreateTree(baseTreeSha[c], treeEntries[c]))]
                     /\ Goto(c, "createCommit")
                ELSE Return(c, Failure(status)) /\ UNCHANGED newTree
    /\ UNCHANGED <<remote, input, treeVars, wsVars, files, latestCommitSha, baseTreeSha, pending, treeEntries,
                   newCommit>>

\* git.createCommit with parents: [currentCommitSha].
DeployCreateCommit(c) ==
    /\ pc[c] = "createCommit"
    /\ input[c].impl \in DeployImpls
    /\ \E up \in BOOLEAN :
         LET status == Observed(up, Ok)
         IN  /\ Logged(c, <<Call("createCommit", "", status)>>)
             /\ IF status = Ok
                THEN /\ commits' = Append(commits, [tree |-> newTree[c][1],
                                                    parents |-> latestCommitSha[c]])
                     /\ newCommit' = [newCommit EXCEPT ![c] = Some(Len(commits) + 1)]
                     /\ Goto(c, "updateRef")
                ELSE Return(c, Failure(status)) /\ UNCHANGED <<commits, newCommit>>
    /\ UNCHANGED <<repoExists, defaultBranch, refs, input, treeVars, wsVars, files, latestCommitSha, baseTreeSha,
                   pending, treeEntries, newTree>>

\* git.updateRef of heads/main (not forced); on any failure the catch tries
\* the default branch.
DeployUpdateRef(c) ==
    /\ pc[c] = "updateRef"
    /\ \E up \in BOOLEAN :
         LET status == Observed(up, UpdateRefStatus("main", newCommit[c][1]))
         IN  /\ Logged(c, <<Call("updateRef", "main", status)>>)
             /\ IF status = Ok
                THEN /\ refs' = [refs EXCEPT !["main"] = newCommit[c]]
                     /\ Return(c, DeploySuccess)
                ELSE Goto(c, "updateReposGet") /\ UNCHANGED refs
    /\ UNCHANGED <<repoExists, defaultBranch, commits, input, treeVars, wsVars, locals>>

\* The catch of updateRef: repos.get for the default branch.
DeployUpdateReposGet(c) ==
    /\ pc[c] = "updateReposGet"
    /\ \E up \in BOOLEAN :
         LET status == Observed(up, ReposGetStatus)
         IN  /\ Logged(c, <<Call("repos.get", "", status)>>)
             /\ IF status = Ok THEN Goto(c, "updateRefDefault")
                ELSE Return(c, Failure(status))
    /\ UNCHANGED <<remote, input, treeVars, wsVars, locals>>

\* The catch of updateRef: git.updateRef of heads/<default_branch>.
DeployUpdateRefDefault(c) ==
    /\ pc[c] = "updateRefDefault"
    /\ \E up \in BOOLEAN :
         LET status == Observed(up, UpdateRefStatus(defaultBranch, newCommit[c][1]))
         IN  /\ Logged(c, <<Call("updateRef", defaultBranch, status)>>)
             /\ IF status = Ok
                THEN /\ refs' = [refs EXCEPT ![defaultBranch] = newCommit[c]]
                     /\ Return(c, DeploySuccess)
                ELSE Return(c, Failure(status)) /\ UNCHANGED refs
    /\ UNCHANGED <<repoExists, defaultBranch, commits, input, treeVars, wsVars, locals>>

\* ---------------------------------------------------------------- path tree

\* The names of the segments and the paths of the listings.
NameA == <<"a">>
NameUpperB == <<"B">>
NameC == <<"c">>

\* parts.join("/").
RECURSIVE JoinSlash(_)
JoinSlash(parts) ==
    IF parts = <<>> THEN <<>>
    ELSE IF Len(parts) = 1 THEN parts[1]
    ELSE parts[1] \o <<"/">> \o JoinSlash(Tail(parts))

\* Paths with an empty segment: a leading slash, a trailing slash, and two
\* slashes in a row.
MalformedPaths ==
    {JoinSlash(parts) : parts \in {<< <<>>, NameA >>, << NameA, <<>> >>, << NameA, <<>>, NameC >>}}

\* The paths a listing is made of: files at the top level, in a directory and
\* in a directory of a directory, and the paths with an empty segment (the
\* callers pass the paths on as they get them).
TreePaths ==
    {JoinSlash(parts) : parts \in
        {<<NameA>>, <<NameUpperB>>, <<NameC>>, <<NameA, NameC>>, <<NameA, NameUpperB>>,
         <<NameUpperB, NameA>>, <<NameA, NameUpperB, NameC>>, <<NameC, NameA>>}}
    \cup MalformedPaths

\* The paths that are directories of other paths of TreePaths.
TreeDirPaths == {JoinSlash(parts) : parts \in {<<NameA>>, <<NameUpperB>>, <<NameA, NameUpperB>>}}

\* paths: string[] of buildFileTree, files[].path of buildTree: file paths.
PathItems == [path : TreePaths, type : {"blob"}]

\* data.tree of git.getTree: blobs, and trees for the directories.
TreeItems == PathItems \cup [path : TreeDirPaths, type : {"tree"}]

\* a.localeCompare(b) on letters: the letters are compared without their
\* case first; names that differ in case only have the lower case first.
LetterRank(ch) ==
    CASE ch \in {"a", "A"} -> 1
      [] ch \in {"b", "B"} -> 2
      [] ch \in {"c", "C"} -> 3
      [] OTHER -> 0

CaseRank(ch) == IF ch \in {"A", "B", "C"} THEN 1 ELSE 0

RECURSIVE CompareLetters(_, _)
CompareLetters(x, y) ==
    IF x = <<>> /\ y = <<>> THEN 0
    ELSE IF x = <<>> THEN -1
    ELSE IF y = <<>> THEN 1
    ELSE IF LetterRank(Head(x)) < LetterRank(Head(y)) THEN -1
    ELSE IF LetterRank(Head(x)) > LetterRank(Head(y)) THEN 1
    ELSE CompareLetters(Tail(x), Tail(y))

RECURSIVE CompareCase(_, _)
CompareCase(x, y) ==
    IF x = <<>> \/ y = <<>> THEN 0
    ELSE IF CaseRank(Head(x)) < CaseRank(Head(y)) THEN -1
    ELSE IF CaseRank(Head(x)) > CaseRank(Head(y)) THEN 1
    ELSE CompareCase(Tail(x), Tail(y))

LocaleCompare(x, y) ==
    IF CompareLetters(x, y) # 0 THEN CompareLetters(x, y) ELSE CompareCase(x, y)

\* A FileNode / TreeNode; children is absent (undefined) for a file.
Node(name, path, type, children) ==
    [name |-> name, path |-> path, type |-> type, children |-> children]

\* currentLevel.find((node) => node.name === part): the first one, if any.
FindByName(level, part) ==
    LET found == {k \in 1..Len(level) : level[k].name = part}
    IN  IF found = {} THEN 0 ELSE CHOOSE k \in found : \A j \in found : k <= j

\* parts.slice(0, n).
Slice(parts, n) == SubSeq(parts, 1, n)

\* The body of paths.forEach / files.forEach from the part at index on:
\* currentLevel with the rest of the path walked into it.
RECURSIVE InsertPath(_, _, _, _)
InsertPath(level, parts, index, dirType) ==
    IF index > Len(parts) THEN level
    ELSE LET part == parts[index]
             isFile == index = Len(parts)
             fullPath == JoinSlash(Slice(parts, index))
             k == FindByName(level, part)
         IN  IF k # 0
             THEN IF ~isFile /\ level[k].children # None
                  THEN [level EXCEPT ![k].children =
                            Some(InsertPath(level[k].children[1], parts, index + 1, dirType))]
                  ELSE InsertPath(level, parts, index + 1, dirType)
             ELSE IF isFile THEN Append(level, Node(part, fullPath, "file", None))
             ELSE Append(level, Node(part, fullPath, dirType,
                                     Some(InsertPath(<<>>, parts, index + 1, dirType))))

\* The comparator of sortTree.
SortCompare(a, b) ==
    IF a.type = b.type THEN LocaleCompare(a.name, b.name)
    ELSE IF a.type = "dir" THEN -1 ELSE 1

\* One node put into a sorted array behind the nodes that do not come after
\* it: Array.prototype.sort is stable.
RECURSIVE InsertSorted(_, _)
InsertSorted(sorted, node) ==
    IF sorted = <<>> THEN <<node>>
    ELSE IF SortCompare(sorted[Len(sorted)], node) <= 0 THEN Append(sorted, node)
    ELSE Append(InsertSorted(SubSeq(sorted, 1, Len(sorted) - 1), node), sorted[Len(sorted)])

\* Mutant of SortNodes: the nodes are left in the order they were made in.
SortNodes_Unsorted(nodes) == nodes

RECURSIVE SortNodes(_)
SortNodes(nodes) ==
    IF nodes = <<>> THEN <<>>
    ELSE InsertSorted(SortNodes(SubSeq(nodes, 1, Len(nodes) - 1)), nodes[Len(nodes)])

\* sortTree: the nodes sorted, then the children of each of them.
RECURSIVE sortTree(_)
sortTree(nodes) ==
    LET sorted == SortNodes(nodes)
    IN  [i \in 1..Len(sorted) |->
            [sorted[i] EXCEPT !.children =
                IF @ = None THEN None ELSE Some(sortTree(@[1]))]]

\* getFileTree keeps its nodes by reference: tree and dirMap hold references
\* into the heap, and the children of a node are references too.
\* dirMap.set(key, ref).
MapSet(map, key, ref) ==
    [p \in (DOMAIN map) \cup {key} |-> IF p = key THEN ref ELSE map[p]]

\* dirMap.get(key): 0 stands for undefined.
MapGet(map, key) == IF key \in DOMAIN map THEN map[key] ELSE 0

\* parentNode.children.push(node), after "if (!parentNode.children)
\* parentNode.children = []".
PushChild(hp, parent, ref) ==
    [hp EXCEPT ![parent].children = Some((IF @ = None THEN <<>> ELSE @[1]) \o <<ref>>)]

\* currentPath after the part at index: the parts joined by "/", except that
\* an empty currentPath is replaced by the part.
RECURSIVE CurrentPath(_, _)
CurrentPath(parts, index) ==
    IF index = 1 THEN parts[1]
    ELSE LET before == CurrentPath(parts, index - 1)
         IN  IF before = <<>> THEN parts[index] ELSE before \o <<"/">> \o parts[index]

\* A new node is attached to the top level (i === 0) or to its parent in
\* dirMap; without a parent in dirMap it is attached nowhere.
Attach(st, parts, index, ref) ==
    IF index = 1 THEN [st EXCEPT !.fileTree = Append(@, ref)]
    ELSE LET parent == MapGet(st.dirMap, JoinSlash(Slice(parts, index - 1)))
         IN  IF parent # 0 THEN [st EXCEPT !.heap = PushChild(@, parent, ref)] ELSE st

\* The for loop of getFileTree over the parts of one item, from index on.
RECURSIVE GetFileTreeParts(_, _, _, _)
GetFileTreeParts(st, item, parts, index) ==
    LET ref == Len(st.heap) + 1
    IN  IF index = Len(parts)
        THEN LET node == Node(parts[index], item.path,
                              IF item.type = "blob" THEN "file" ELSE "dir", None)
                 attached == Attach([st EXCEPT !.heap = Append(@, node)], parts, index, ref)
             IN  IF item.type = "tree"
                 THEN [attached EXCEPT !.dirMap = MapSet(@, item.path, ref)]
                 ELSE attached
        ELSE LET currentPath == CurrentPath(parts, index)
             IN  IF MapGet(st.dirMap, currentPath) # 0
                 THEN GetFileTreeParts(st, item, parts, index + 1)
                 ELSE LET node == Node(parts[index], currentPath, "dir", Some(<<>>))
                          made == [st EXCEPT !.heap = Append(@, node),
                                             !.dirMap = MapSet(@, currentPath, ref)]
                      IN  GetFileTreeParts(Attach(made, parts, index, ref), item, parts,
                                           index + 1)

\* The body of data.tree.forEach: an item without path is skipped.
GetFileTreeItem(st, item) ==
    IF item.path = <<>> THEN st ELSE GetFileTreeParts(st, item, SplitSlash(item.path), 1)

\* The nested tree the references stand for.
RECURSIVE Materialize(_, _)
Materialize(hp, references) ==
    [i \in 1..Len(references) |->
        [hp[references[i]] EXCEPT !.children =
            IF @ = None THEN None ELSE Some(Materialize(hp, @[1]))]]

\* Mutant of Transform: the children of a directory are not gone through.
Transform_TopLevelOnly(nodes) ==
    IF nodes = <<>> THEN <<>>
    ELSE [i \in 1..Len(SelectSeq(nodes, LAMBDA node : node.type = "file")) |->
              SelectSeq(nodes, LAMBDA node : node.type = "file")[i].path]

\* transformFileNodeToGitHubFile: the paths of the file nodes, depth first.
RECURSIVE Transform(_)
Transform(nodes) ==
    IF nodes = <<>> THEN <<>>
    ELSE LET node == Head(nodes)
         IN  (IF node.type = "file" THEN <<node.path>>
              ELSE IF node.children # None THEN Transform(node.children[1])
              ELSE <<>>)
             \o Transform(Tail(nodes))

\* paths.forEach of buildFileTree over the whole list: root after the walk.
RECURSIVE WalkPaths(_, _)
WalkPaths(level, items) ==
    IF items = <<>> THEN level
    ELSE WalkPaths(InsertPath(level, SplitSlash(Head(items).path), 1, "dir"), Tail(items))

\* buildFileTree(paths): the walk, then sortTree(root).
buildFileTree(items) == sortTree(WalkPaths(<<>>, items))

Builders == {"buildFileTree", "buildTree", "getFileTree"}

\* The type buildFileTree / buildTree give a directory.
DirType(b) == IF b = "buildTree" THEN "folder" ELSE "dir"

\* One build of the path tree over a listing of up to MaxListing items.
InitTree ==
    /\ builder \in Builders
    /\ listing \in SeqsUpTo(IF builder = "getFileTree" THEN TreeItems ELSE PathItems,
                            MaxListing)
    /\ phase = "walk"
    /\ cursor = 0
    /\ root = <<>>
    /\ heap = <<>>
    /\ fileTree = <<>>
    /\ dirMap = NoMap
    /\ transformed = <<>>

\* No Deploy runs, on a repository that does not exist.
InitDeployIdle ==
    /\ repoExists = FALSE
    /\ defaultBranch = DEFAULT_BRANCH
    /\ refs = NoRefs
    /\ commits = <<>>
    /\ input = [c \in Calls |-> Idle]
    /\ InitLocals

\* One iteration of paths.forEach (buildFileTree) / files.forEach (buildTree).
BuildFileTreeWalk ==
    /\ builder \in {"buildFileTree", "buildTree"}
    /\ phase = "walk"
    /\ cursor < Len(listing)
    /\ root' = InsertPath(root, SplitSlash(listing[cursor + 1].path), 1, DirType(builder))
    /\ cursor' = cursor + 1
    /\ UNCHANGED <<deployVars, wsVars, builder, listing, phase, heap, fileTree, dirMap, transformed>>

\* buildFileTree: return sortTree(root).
BuildFileTreeReturn ==
    /\ builder = "buildFileTree"
    /\ phase = "walk"
    /\ cursor = Len(listing)
    /\ root' = sortTree(root)
    /\ phase' = "built"
    /\ UNCHANGED <<deployVars, wsVars, builder, listing, cursor, heap, fileTree, dirMap, transformed>>

\* buildTree: return root.
BuildTreeReturn ==
    /\ builder = "buildTree"
    /\ phase = "walk"
    /\ cursor = Len(listing)
    /\ phase' = "built"
    /\ UNCHANGED <<deployVars, wsVars, builder, listing, cursor, root, heap, fileTree, dirMap,
                   transformed>>

\* One iteration of data.tree.forEach of getFileTree.
GetFileTreeWalk ==
    /\ builder = "getFileTree"
    /\ phase = "walk"
    /\ cursor < Len(listing)
    /\ LET st == GetFileTreeItem([heap |-> heap, fileTree |-> fileTree, dirMap |-> dirMap],
                                 listing[cursor + 1])
       IN  /\ heap' = st.heap
           /\ fileTree' = st.fileTree
           /\ dirMap' = st.dirMap
    /\ cursor' = cursor + 1
    /\ UNCHANGED <<deployVars, wsVars, builder, listing, phase, root, transformed>>

\* getFileTree: return tree.
GetFileTreeReturn ==
    /\ builder = "getFileTree"
    /\ phase = "walk"
    /\ cursor = Len(listing)
    /\ root' = Materialize(heap, fileTree)
    /\ phase' = "built"
    /\ UNCHANGED <<deployVars, wsVars, builder, listing, cursor, heap, fileTree, dirMap, transformed>>

\* transformFileNodeToGitHubFile over the tree that was returned.
TransformBuilt ==
    /\ builder \in Builders
    /\ phase = "built"
    /\ transformed' = Transform(root)
    /\ phase' = "transformed"
    /\ UNCHANGED <<deployVars, wsVars, builder, listing, cursor, root, heap, fileTree, dirMap>>

\* ---------------------------------------------------------------- Workspace

\* The files of the repository the user can select, and what getFileContent
\* answers for each of them.
ViewPaths == {PathA, PathC}

FileText(path) == IF path = PathA THEN "text of a" ELSE "text of c"

\* What a load of a file's content ends with: the text, or a failure.
LoadOutcomes == {"content", "failed"}

\* The change lists a chat answer proposes (result.changes).
ProposedChanges ==
    SeqsUpTo({[path |-> PathA, content |-> Some("x"), type |-> "upsert"],
              [path |-> PathC, content |-> None, type |-> "delete"]}, MaxChanges)

\* A failure result without a message: {success: false}.
FailureWithoutError == [Failure("") EXCEPT !.error = None]

\* What "await deployChanges(...)" / "await commitChanges(...)" ends with: a
\* result the action returned, or an error thrown at the caller (with a
\* message, or not an Error at all).
DeployOutcomes ==
    [thrown : {FALSE}, value : {DeploySuccess, Success(Some(3)), Failure("Unauthorized"),
                                FailureWithoutError}]
    \cup [thrown : {TRUE}, value : {Failure(Unavailable), FailureWithoutError}]

FailedToDeploy == "Failed to deploy changes"

\* The text shown for a successful deploy: part_011 adds the commit.
DeployedMessage(comp) ==
    IF comp = "part_011" THEN "Changes deployed successfully! Commit:"
    ELSE "Changes deployed successfully!"

\* result.error || "Failed to deploy changes", and the same for error.message.
MessageOf(value) == IF value.error # None THEN value.error[1] ELSE FailedToDeploy

DeployMessage(success, message) == [success |-> success, message |-> message]

\* The file view of a mounted component, nothing selected yet.
InitView ==
    /\ selectedFile = None
    /\ fileContent = ""
    /\ loadingFile = FALSE
    /\ loads = <<>>

\* The chat and the deploy handler of a mounted component.
InitHandler ==
    /\ pendingChanges = <<>>
    /\ isDeploying = FALSE
    /\ deployResult = None
    /\ showReview = FALSE
    /\ handler = "idle"
    /\ isSendingMessage = FALSE

\* handleSelectFile(path), and the effect on [selectedFile]: selecting another
\* file starts a load of its content.
HandleSelectFile ==
    /\ component \in Components
    /\ Len(loads) < MaxLoads
    /\ \E path \in ViewPaths :
         /\ selectedFile # Some(path)
         /\ selectedFile' = Some(path)
         /\ loads' = Append(loads, path)
    /\ loadingFile' = TRUE
    /\ UNCHANGED <<deployVars, treeVars, component, fileContent, handlerVars>>

\* What is shown when a load ended: the text (content || ""), and for a load
\* that failed the failure text of loadFileContent's catch, or "" for the
\* null that getFileContent of useGitHubRepo returns.
LoadedContent(comp, path, outcome) ==
    IF outcome = "content" THEN FileText(path)
    ELSE IF comp = "Workspace.tsx" THEN "// Failed to load file content"
    ELSE ""

\* The sequence without the item at index.
Without(seq, index) == SubSeq(seq, 1, index - 1) \o SubSeq(seq, index + 1, Len(seq))

\* One getFileContent call in flight settles, in any order: its answer is
\* shown and the spinner is taken away (finally).
LoadSettles ==
    /\ component \in Components
    /\ \E index \in 1..Len(loads), outcome \in LoadOutcomes :
         /\ fileContent' = LoadedContent(component, loads[index], outcome)
         /\ loads' = Without(loads, index)
    /\ loadingFile' = FALSE
    /\ UNCHANGED <<deployVars, treeVars, component, selectedFile, handlerVars>>

\* handleSendMessage: a chat request starts; the last deploy message goes.
HandleSendMessage ==
    /\ component \in Components
    /\ ~isSendingMessage
    /\ isSendingMessage' = TRUE
    /\ deployResult' = None
    /\ UNCHANGED <<deployVars, treeVars, component, viewVars, pendingChanges, isDeploying,
                   showReview, handler>>

\* The chat request settles: changes that came with the answer, if any,
\* replace the pending ones; a failure leaves them.
GenerateSettles ==
    /\ component \in Components
    /\ isSendingMessage
    /\ \E failed \in BOOLEAN, changes \in ProposedChanges :
         pendingChanges' = IF ~failed /\ Len(changes) > 0 THEN changes ELSE pendingChanges
    /\ isSendingMessage' = FALSE
    /\ UNCHANGED <<deployVars, treeVars, component, viewVars, isDeploying, deployResult,
                   showReview, handler>>

\* handleOpenReviewModal, and the dialog's onOpenChange / Cancel.
HandleOpenReviewModal ==
    /\ component = "Workspace.tsx"
    /\ pendingChanges # <<>>
    /\ ~showReview
    /\ showReview' = TRUE
    /\ UNCHANGED <<deployVars, treeVars, component, viewVars, pendingChanges, isDeploying,
                   deployResult, handler, isSendingMessage>>

CloseReview ==
    /\ component = "Workspace.tsx"
    /\ showReview
    /\ showReview' = FALSE
    /\ UNCHANGED <<deployVars, treeVars, component, viewVars, pendingChanges, isDeploying,
                   deployResult, handler, isSendingMessage>>

\* handleConfirmAndPush / handleDeployChanges up to the await of the deploy.
\* The buttons are disabled while isDeploying.
HandleConfirmAndPush ==
    /\ component \in Components
    /\ ~isDeploying
    /\ pendingChanges # <<>>
    /\ isDeploying' = TRUE
    /\ deployResult' = None
    /\ handler' = "deploy"
    /\ UNCHANGED <<deployVars, treeVars, component, viewVars, pendingChanges, showReview,
                   isSendingMessage>>

\* Mutant of DeploySettles: the pending changes are cleared and the file
\* tree is reloaded whatever the deploy ended with.
DeploySettles_ClearsAlways ==
    /\ component \in Components
    /\ handler = "deploy"
    /\ \E outcome \in DeployOutcomes :
         deployResult' =
             IF ~outcome.thrown /\ outcome.value.success
             THEN Some(DeployMessage(TRUE, DeployedMessage(component)))
             ELSE Some(DeployMessage(FALSE, MessageOf(outcome.value)))
    /\ pendingChanges' = <<>>
    /\ showReview' = FALSE
    /\ handler' = "reload"
    /\ UNCHANGED <<deployVars, treeVars, component, viewVars, isDeploying, isSendingMessage>>

\* The deploy settles.  Success: the message, the pending changes cleared,
\* the review closed, and the reload of the file tree awaited.  A failure
\* result or a thrown error: the failure message, then finally.
DeploySettles ==
    /\ component \in Components
    /\ handler = "deploy"
    /\ \E outcome \in DeployOutcomes :
         IF ~outcome.thrown /\ outcome.value.success
         THEN /\ deployResult' = Some(DeployMessage(TRUE, DeployedMessage(component)))
              /\ pendingChanges' = <<>>
              /\ showReview' = FALSE
              /\ handler' = "reload"
              /\ UNCHANGED isDeploying
         ELSE /\ deployResult' = Some(DeployMessage(FALSE, MessageOf(outcome.value)))
              /\ isDeploying' = FALSE
              /\ handler' = "idle"
              /\ UNCHANGED <<pendingChanges, showReview>>
    /\ UNCHANGED <<deployVars, treeVars, component, viewVars, isSendingMessage>>

\* "await loadFileTree()" / "await refreshFiles()" is over (neither throws:
\* both catch their errors), then finally.
ReloadSettles ==
    /\ component \in Components
    /\ handler = "reload"
    /\ isDeploying' = FALSE
    /\ handler' = "idle"
    /\ UNCHANGED <<deployVars, treeVars, component, viewVars, pendingChanges, deployResult,
                   showReview, isSendingMessage>>

\* ------------------------------------------------------------ specification

pushToGithub(c) ==
    \/ PushStart(c)
    \/ PushGetAuthenticated(c)
    \/ EnsureRepositoryGet(c)
    \/ EnsureRepositoryCreate(c)
    \/ GetLatestCommitInfoRef(c)
    \/ GetLatestCommitInfoCommit(c)
    \/ PushBlobSettled(c)
    \/ PushCreateTree(c)
    \/ PushCreateCommit(c)
    \/ PushUpsertBranchRef(c)

deployChanges(c) ==
    \/ DeployStart(c)
    \/ DeployGetRef(c)
    \/ DeployResolveReposGet(c)
    \/ DeployGetRefDefault(c)
    \/ DeployGetCommit(c)
    \/ DeployChange(c)
    \/ DeployCreateTree(c)
    \/ DeployCreateCommit(c)
    \/ DeployUpdateRef(c)
    \/ DeployUpdateReposGet(c)
    \/ DeployUpdateRefDefault(c)

Next == \E c \in Calls : pushToGithub(c) \/ deployChanges(c)

Spec == Init /\ [][Next]_vars

SpecConc == InitConc /\ [][Next]_vars

\* The builds of the path tree, each over every listing up to MaxListing.
InitBuild == InitDeployIdle /\ InitTree /\ InitWorkspaceIdle

NextBuild ==
    \/ BuildFileTreeWalk
    \/ BuildFileTreeReturn
    \/ BuildTreeReturn
    \/ GetFileTreeWalk
    \/ GetFileTreeReturn
    \/ TransformBuilt

SpecTree == InitBuild /\ [][NextBuild]_vars

\* A Workspace component is mounted; no Deploy call and no build is modelled
\* along with it.
InitWorkspace ==
    /\ InitDeployIdle
    /\ InitTreeIdle
    /\ component \in Components
    /\ InitView
    /\ InitHandler

\* The file view of the Workspace component.
NextFileView == HandleSelectFile \/ LoadSettles

SpecFileView == InitWorkspace /\ [][NextFileView]_vars

\* The chat and the deploy handler of the Workspace component.
NextDeployHandler ==
    \/ HandleSendMessage
    \/ GenerateSettles
    \/ HandleOpenReviewModal
    \/ CloseReview
    \/ HandleConfirmAndPush
    \/ DeploySettles
    \/ ReloadSettles

SpecDeployHandler == InitWorkspace /\ [][NextDeployHandler]_vars

\* Every promise the handler awaits settles: the server action answers or
\* the call fails, and the reload of the file tree ends.
SpecDeployHandlerFair ==
    SpecDeployHandler /\ WF_vars(DeploySettles) /\ WF_vars(ReloadSettles)

\* ------------------------------------------------------------------ claims

Succeeded(c) == result[c] # None /\ result[c][1].success

Failed(c) == result[c] # None /\ ~result[c][1].success

\* The calls of one kind a Deploy has issued.
Issued(c, ops) == {i \in 1..Len(log[c]) : log[c][i].op \in ops}

\* The path a change is deployed under: pushToGithub sanitizes it,
\* deployChanges passes it on as it came.
DeployedPath(c, change) ==
    IF input[c].impl = "push" THEN sanitizePath(change.path)[1] ELSE change.path

\* The paths of the call's change-set.
ChangedPaths(c) ==
    {DeployedPath(c, input[c].changes[i]) : i \in 1..Len(input[c].changes)}

\* The whole change-set as tree entries: a null reference for a delete, the
\* blob of its own content for anything else.
WholeChangeSet(c) ==
    [i \in 1..Len(input[c].changes) |->
        LET change == input[c].changes[i]
        IN  [path |-> DeployedPath(c, change),
             sha |-> IF input[c].impl = "deploy" /\ change.type = "delete" THEN NullSha
                     ELSE BlobSha(change.content[1])]]

RefSteps == {"upsertRef", "updateRef", "updateRefDefault"}

\* C1: a branch ref changes only in the final step of a Deploy whose blob,
\* tree and commit steps all completed, it moves to that Deploy's commit, and
\* the commit's tree is the captured base tree with the whole change-set
\* laid over it, never a part of it.
C1_RefMovesOnlyInFinalStep ==
    [][refs' # refs =>
        \E c \in Calls, b \in Branches :
            /\ pc[c] \in RefSteps
            /\ pc'[c] = "done"
            /\ Succeeded(c)'
            /\ pending[c] = {}
            /\ newTree[c] # None
            /\ newCommit[c] # None
            /\ refs' = [refs EXCEPT ![b] = newCommit[c]]
            /\ commits[newCommit[c][1]].tree = newTree[c][1]
            /\ newTree[c][1] = OverlayEntries(
                   IF baseTreeSha[c] = None THEN EmptyTree ELSE baseTreeSha[c][1],
                   WholeChangeSet(c))]_vars

\* C1 witness: a Deploy of two changes has moved a branch to its commit.
C1_Witness ==
    \E c \in Calls, b \in Branches :
        /\ Succeeded(c)
        /\ Len(input[c].changes) = 2
        /\ refs[b] = newCommit[c]

\* A createBlob of the call was answered with an error.
BlobFailed(c) ==
    \E i \in Issued(c, {"createBlob"}) : log[c][i].status \notin {Ok, "dropped"}

\* C3: once a createBlob of a Deploy has failed, the Deploy has returned a
\* failure and has issued no createTree, createCommit, updateRef or createRef.
C3_BlobFailureStopsDeploy ==
    \A c \in Calls :
        BlobFailed(c) =>
            /\ pc[c] = "done"
            /\ Failed(c)
            /\ Issued(c, {"createTree", "createCommit", "updateRef", "createRef"}) = {}

\* C3 witness: the second createBlob of a Deploy failed after the first one
\* had succeeded.
C3_Witness ==
    \E c \in Calls :
        /\ BlobFailed(c)
        /\ \E i \in Issued(c, {"createBlob"}) : log[c][i].status = Ok

\* The tree a successful Deploy left in its commit, and the base tree it
\* captured.
DeployedTree(c) == commits[newCommit[c][1]].tree

CapturedBase(c) == baseTreeSha[c][1]

\* Every path outside the change-set is in the deployed tree exactly when it
\* is in the captured base tree, with the same object.
FramePreserved(c) ==
    \A p \in (DOMAIN CapturedBase(c) \cup DOMAIN DeployedTree(c)) \ ChangedPaths(c) :
        /\ p \in DOMAIN CapturedBase(c)
        /\ p \in DOMAIN DeployedTree(c)
        /\ DeployedTree(c)[p] = CapturedBase(c)[p]

\* C4: after a successful Deploy onto a branch with a head, a branch points
\* at the new commit and every path outside the change-set resolves to the
\* object it had in the captured base tree.
C4_UntouchedPathsPreserved ==
    \A c \in Calls :
        (Succeeded(c) /\ latestCommitSha[c] # None) =>
            /\ \E b \in Branches : refs[b] = newCommit[c]
            /\ FramePreserved(c)

\* C4 witness: a successful Deploy onto an existing head changed the tree
\* and left the path a out of its change-set.
C4_Witness ==
    \E c \in Calls :
        /\ Succeeded(c)
        /\ latestCommitSha[c] # None
        /\ PathA \notin ChangedPaths(c)
        /\ PathA \in DOMAIN DeployedTree(c)
        /\ DeployedTree(c) # CapturedBase(c)

\* The i-th change deletes a path of the base tree that no other entry of
\* the change-set writes.
DeletesExisting(c, i) ==
    LET change == input[c].changes[i]
    IN  /\ input[c].impl = "deploy"
        /\ change.type = "delete"
        /\ baseTreeSha[c] # None
        /\ change.path \in DOMAIN CapturedBase(c)
        /\ \A j \in 1..Len(input[c].changes) :
               input[c].changes[j].path = change.path => input[c].changes[j].type = "delete"

\* C5: a delete entry reaches tree composition with a null object reference,
\* and after a successful Deploy the deleted path is gone from the head tree
\* while the base tree's paths outside the change-set are unchanged.
C5_DeleteRemovesPath ==
    \A c \in Calls :
        /\ \A i \in 1..Len(treeEntries[c]) :
               (input[c].impl = "deploy" /\ input[c].changes[i].type = "delete") =>
                   treeEntries[c][i] = [path |-> input[c].changes[i].path, sha |-> NullSha]
        /\ Succeeded(c) =>
               \A i \in 1..Len(input[c].changes) :
                   DeletesExisting(c, i) =>
                       /\ input[c].changes[i].path \notin DOMAIN DeployedTree(c)
                       /\ FramePreserved(c)

\* C5 witness: a successful Deploy deleted the existing path a.
C5_Witness ==
    \E c \in Calls :
        /\ Succeeded(c)
        /\ \E i \in 1..Len(input[c].changes) :
               DeletesExisting(c, i) /\ input[c].changes[i].path = PathA
        /\ PathA \notin DOMAIN DeployedTree(c)
        /\ PathB \in DOMAIN DeployedTree(c)

\* The branch whose head the call read at resolution: heads/main, or for
\* deployChanges the default branch when the getRef of heads/main failed.
ResolvedBranch(c) ==
    IF input[c].impl \in DeployImpls /\ Len(log[c]) >= 3 /\ log[c][2].op = "repos.get"
    THEN log[c][3].ref ELSE DEFAULT_BRANCH

\* Every remote call of the Deploy got through to the remote.
AllAnswered(c) == \A i \in 1..Len(log[c]) : log[c][i].status # Unavailable

\* C2: of two concurrent Deploy calls that resolved the same branch and
\* captured the same head, once one of them has moved the branch to its
\* commit the other one ends in a failure and no branch points at its commit
\* (every remote call of both got through: the only failure is the conflict).
C2_LoserObservesConflict ==
    \A c1, c2 \in Calls :
        ( /\ c1 # c2
          /\ pc[c1] = "done" /\ pc[c2] = "done"
          /\ AllAnswered(c1) /\ AllAnswered(c2)
          /\ newCommit[c1] # None /\ newCommit[c2] # None
          /\ ResolvedBranch(c1) = ResolvedBranch(c2)
          /\ latestCommitSha[c1] = latestCommitSha[c2]
          /\ Succeeded(c1)
          /\ refs[ResolvedBranch(c1)] = newCommit[c1] )
        => /\ Failed(c2)
           /\ \A b \in Branches : refs[b] # newCommit[c2]

\* The call is the only writer and every commit of the repository is its own.
ZeroCommitsBefore(c) == \A i \in 1..Len(commits) : Some(i) = newCommit[c]

OneCreateChange(c) ==
    /\ Len(input[c].changes) = 1
    /\ input[c].changes[1].type = "upsert"
    /\ input[c].changes[1].content # None
    /\ input[c].changes[1].path \in PlainPaths

\* The failures that are not the pipeline's: no session, no repository name,
\* a remote call that did not get through.
OutsideFailures ==
    {Unavailable, "Unauthorized", "You must connect your GitHub account to deploy.",
     "A repository name is required."}

\* C6: on a repository with zero commits a Deploy of one create change does
\* not fail at resolution: it ends in a success whose commit has no parent,
\* whose tree is composed without a base tree and to which heads/main was
\* created, unless a remote call did not get through.
C6_FirstCommitOnEmptyRepository ==
    \A c \in Calls :
        (input[c].impl # "none" /\ repoExists /\ ZeroCommitsBefore(c) /\ OneCreateChange(c)
            /\ pc[c] = "done")
        => /\ Failed(c) => result[c][1].error[1] \in OutsideFailures
           /\ Succeeded(c) =>
                /\ latestCommitSha[c] = None /\ baseTreeSha[c] = None
                /\ commits[newCommit[c][1]].parents = None
                /\ DeployedTree(c) = OverlayEntries(EmptyTree, WholeChangeSet(c))
                /\ refs[DEFAULT_BRANCH] = newCommit[c]
                /\ Issued(c, {"createRef"}) # {}

\* The call has captured the branch state and not yet returned.
PastResolution ==
    {"createBlob", "changes", "createTree", "createCommit", "upsertRef", "updateRef",
     "updateReposGet", "updateRefDefault"}

\* C7: with heads/main absent and a default branch that has commits, a call
\* past resolution has captured the default branch's head and its tree.
C7_FallbackToDefaultBranch ==
    \A c \in Calls :
        (pc[c] \in PastResolution /\ refs[DEFAULT_BRANCH] = None /\ refs[defaultBranch] # None)
        => /\ latestCommitSha[c] = refs[defaultBranch]
           /\ baseTreeSha[c] = Some(commits[refs[defaultBranch][1]].tree)

\* The call asked for the ref and was told it does not exist / was given it.
FoundAbsent(c, branch) ==
    \E j \in 1..Len(log[c]) : log[c][j] = Call("getRef", branch, NotFound)

FoundPresent(c, branch) ==
    \E j \in 1..Len(log[c]) : log[c][j] = Call("getRef", branch, Ok)

\* C8: an updateRef is issued only after a head was captured and never for a
\* ref the call found absent; a createRef only when no head was captured and
\* never for a ref the call resolved.
C8_UpdateXorCreate ==
    \A c \in Calls : \A i \in 1..Len(log[c]) :
        /\ log[c][i].op = "updateRef" =>
               latestCommitSha[c] # None /\ ~FoundAbsent(c, log[c][i].ref)
        /\ log[c][i].op = "createRef" =>
               latestCommitSha[c] = None /\ ~FoundPresent(c, log[c][i].ref)

\* C9: the commit of a Deploy has the captured head as its parent, and has
\* no parent only on a repository that had no commits at all.
C9_ParentIsCapturedHead ==
    \A c \in Calls :
        newCommit[c] # None =>
            /\ commits[newCommit[c][1]].parents = latestCommitSha[c]
            /\ commits[newCommit[c][1]].parents = None => ZeroCommitsBefore(c)

\* path is non-empty, has no leading slash and no ".." segment.
WellFormedPath(path) ==
    /\ path # <<>>
    /\ Head(path) # "/"
    /\ ~HasDotDotSegment(path)

\* C10: every path that reaches blob/tree composition is non-empty, has no
\* leading slash and no ".." segment.
C10_ComposedPathsNormalized ==
    \A c \in Calls : \A i \in 1..Len(treeEntries[c]) :
        WellFormedPath(treeEntries[c][i].path)

\* Two entries of the change list have the same path once normalized.
HasDuplicatePath(changes) ==
    \E i, j \in 1..Len(changes) :
        /\ i # j
        /\ sanitizePath(changes[i].path) # None
        /\ sanitizePath(changes[i].path) = sanitizePath(changes[j].path)

\* C11: a Deploy whose change-set has two entries with the same normalized
\* path issues no createTree, createCommit, updateRef or createRef and does
\* not end in a success.
C11_DuplicatePathsRejected ==
    \A c \in Calls :
        HasDuplicatePath(input[c].changes) =>
            /\ Issued(c, {"createTree", "createCommit", "updateRef", "createRef"}) = {}
            /\ ~Succeeded(c)

\* An entry of the change list is a delete that carries content.
DeleteWithContent(changes) ==
    \E i \in 1..Len(changes) : changes[i].type = "delete" /\ changes[i].content # None

\* C12: a change-set with a delete entry that carries content never reaches
\* tree composition: no createTree is issued for it and it does not end in a
\* success.
C12_DeleteWithContentRejected ==
    \A c \in Calls :
        (input[c].impl = "deploy" /\ DeleteWithContent(input[c].changes)) =>
            /\ Issued(c, {"createTree"}) = {}
            /\ ~Succeeded(c)

\* deployChanges left its loop over the changes before the last entry.
StoppedInLoop(c) ==
    /\ input[c].impl = "deploy"
    /\ pc[c] = "done"
    /\ baseTreeSha[c] # None
    /\ Len(treeEntries[c]) < Len(input[c].changes)

\* C13: in deployChanges every create/update entry that got past the loop
\* had content and became the blob of exactly that content (the empty string
\* included), and the loop stops with the error "Missing content for change
\* at <path>" exactly at a create/update entry whose content is absent.
C13_AbsentContentFailsEmptyAccepted ==
    \A c \in Calls :
        input[c].impl = "deploy" =>
            /\ \A i \in 1..Len(treeEntries[c]) :
                   LET change == input[c].changes[i]
                   IN  change.type = "upsert" =>
                           /\ change.content # None
                           /\ treeEntries[c][i] =
                                  [path |-> change.path, sha |-> BlobSha(change.content[1])]
            /\ Cardinality({i \in Issued(c, {"createBlob"}) : log[c][i].status = Ok})
                   = Cardinality({i \in 1..Len(treeEntries[c]) :
                                      input[c].changes[i].type = "upsert"})
            /\ StoppedInLoop(c) =>
                   LET change == input[c].changes[Len(treeEntries[c]) + 1]
                   IN  /\ change.type = "upsert"
                       /\ IF change.content = None
                          THEN result[c] = Some(FailureAt("Missing content for change at",
                                                          change.path))
                          ELSE /\ Failed(c)
                               /\ result[c][1].errorPath = None
                               /\ log[c][Len(log[c])].op = "createBlob"
                               /\ log[c][Len(log[c])].status # Ok

\* C13 witness: a Deploy made a blob of the empty string for its first entry
\* and failed at its second entry, whose content is absent, naming its path.
C13_Witness ==
    \E c \in Calls :
        /\ StoppedInLoop(c)
        /\ input[c].changes[1].content = Some("")
        /\ treeEntries[c] = << [path |-> input[c].changes[1].path, sha |-> BlobSha("")] >>
        /\ input[c].changes[2].type = "upsert"
        /\ input[c].changes[2].content = None
        /\ result[c][1].errorPath = Some(input[c].changes[2].path)

\* The messages of the validation errors of a change-set.
ValidationErrors ==
    {"Each file must include a valid path.", "File paths cannot be empty.",
     "File paths cannot traverse directories.", "Missing content for change at"}

\* The remote calls that write to the remote.
RemoteMutations ==
    {"createForAuthenticatedUser", "createBlob", "createTree", "createCommit", "updateRef",
     "createRef"}

\* C14: a Deploy that failed with a validation error (bad path, missing
\* content) has issued no call that writes to the remote.
C14_ValidationBeforeRemote ==
    \A c \in Calls :
        (Failed(c) /\ result[c][1].error[1] \in ValidationErrors) =>
            Issued(c, RemoteMutations) = {}

\* C15: a Deploy issues at most one createTree, one createCommit and one ref
\* update (updateRef or createRef), and a successful one exactly one of each.
C15_OneTreeOneCommitOneRefUpdate ==
    \A c \in Calls :
        LET trees == Cardinality(Issued(c, {"createTree"}))
            cmts == Cardinality(Issued(c, {"createCommit"}))
            refUpdates == Cardinality(Issued(c, {"updateRef", "createRef"}))
        IN  /\ trees <= 1 /\ cmts <= 1 /\ refUpdates <= 1
            /\ Succeeded(c) => (trees = 1 /\ cmts = 1 /\ refUpdates = 1)

\* C16: a call that is done has returned a result; a success carries the new
\* commit's identifier and a URL and no error, and its last remote call is a
\* ref update that was answered ok; a failure carries an error and neither
\* identifier nor URL.
C16_SuccessOrFailure ==
    \A c \in Calls :
        (input[c].impl # "none" /\ pc[c] = "done") =>
            /\ result[c] # None
            /\ Succeeded(c) =>
                   /\ result[c][1].commitSha # None
                   /\ result[c][1].commitSha = newCommit[c]
                   /\ result[c][1].repoUrl # None
                   /\ result[c][1].error = None
                   /\ log[c] # <<>>
                   /\ log[c][Len(log[c])].op \in {"updateRef", "createRef"}
                   /\ log[c][Len(log[c])].status = Ok
            /\ Failed(c) =>
                   /\ result[c][1].error # None
                   /\ result[c][1].commitSha = None
                   /\ result[c][1].repoUrl = None

\* The call was made without an access token in its session.
NoCredential(c) == input[c].impl # "none" /\ ~input[c].accessToken

\* C17: a Deploy made without an access token issues no remote call, builds
\* nothing, goes from its start straight to a failure, and the remote stays
\* as it was.
C17_NoCredentialNoRemoteCall ==
    \A c \in Calls :
        NoCredential(c) =>
            /\ log[c] = <<>>
            /\ pc[c] \in {"start", "done"}
            /\ pc[c] = "done" =>
                   /\ Failed(c)
                   /\ result[c][1].error[1] \in
                          {"Unauthorized", "You must connect your GitHub account to deploy."}
            /\ treeEntries[c] = <<>> /\ newTree[c] = None /\ newCommit[c] = None
            /\ [repoExists |-> repoExists, defaultBranch |-> defaultBranch, refs |-> refs,
                commits |-> commits] \in RemoteStates

\* C17 witness: a Deploy with changes and no access token has returned.
C17_Witness ==
    \E c \in Calls :
        /\ NoCredential(c)
        /\ input[c].changes # <<>>
        /\ pc[c] = "done"
        /\ Failed(c)

\* The build has returned its tree.
Built == builder \in Builders /\ phase \in {"built", "transformed"}

\* Among siblings no file comes before a directory, and two siblings of the
\* same kind are in ascending order of their names, case left aside.
SortedSiblings(nodes) ==
    \A i, j \in 1..Len(nodes) :
        i < j =>
            /\ ~(nodes[i].type = "file" /\ nodes[j].type # "file")
            /\ nodes[i].type = nodes[j].type =>
                   CompareLetters(nodes[i].name, nodes[j].name) <= 0

RECURSIVE SortedTree(_)
SortedTree(nodes) ==
    /\ SortedSiblings(nodes)
    /\ \A i \in 1..Len(nodes) :
           nodes[i].children # None => SortedTree(nodes[i].children[1])

\* C18: in the tree returned by buildFileTree and in the tree returned by
\* getFileTree, at every level the directories come before the files and the
\* names of each kind are in case-insensitive ascending order.
C18_SiblingsSorted ==
    (Built /\ builder \in {"buildFileTree", "getFileTree"}) => SortedTree(root)

\* The paths of a list are distinct.
DistinctPaths(items) ==
    \A i, j \in 1..Len(items) : items[i].path = items[j].path => i = j

\* x is a directory of the path y.
IsDirectoryOf(x, y) ==
    /\ Len(x) < Len(y)
    /\ SubSeq(y, 1, Len(x) + 1) = x \o <<"/">>

\* A well-formed flat list of distinct file paths: files only, no empty
\* segment, no path twice, and no path that is also a directory of another.
WellFormedListing(items) ==
    /\ \A i \in 1..Len(items) :
           /\ items[i].type = "blob"
           /\ \A k \in 1..Len(SplitSlash(items[i].path)) :
                  SplitSlash(items[i].path)[k] # <<>>
    /\ DistinctPaths(items)
    /\ \A i, j \in 1..Len(items) : ~IsDirectoryOf(items[i].path, items[j].path)

\* Every node hangs under the node of its directory: its path is its
\* parent's path, a slash and its own name.
RECURSIVE WellAttached(_, _)
WellAttached(nodes, parentPath) ==
    \A i \in 1..Len(nodes) :
        /\ nodes[i].path =
               (IF parentPath = None THEN nodes[i].name
                ELSE parentPath[1] \o <<"/">> \o nodes[i].name)
        /\ nodes[i].children # None =>
               WellAttached(nodes[i].children[1], Some(nodes[i].path))

RECURSIVE NodePaths(_)
NodePaths(nodes) ==
    IF nodes = <<>> THEN <<>>
    ELSE <<Head(nodes).path>>
         \o (IF Head(nodes).children # None THEN NodePaths(Head(nodes).children[1]) ELSE <<>>)
         \o NodePaths(Tail(nodes))

\* The records of the listing have distinct paths and no file is a directory
\* of another record.
ConsistentListing(items) ==
    /\ DistinctPaths(items)
    /\ \A i, j \in 1..Len(items) :
           items[i].type = "blob" => ~IsDirectoryOf(items[i].path, items[j].path)

\* C20: in the tree built from a listing of files (and for getFileTree of
\* explicit directory records too, in any order) no two nodes have the same
\* path: every directory has one node.
C20_OneNodePerPath ==
    (Built /\ ConsistentListing(listing)) =>
        \A i, j \in 1..Len(NodePaths(root)) :
            NodePaths(root)[i] = NodePaths(root)[j] => i = j

\* Some node of the tree has the empty string as its name.
RECURSIVE HasEmptyName(_)
HasEmptyName(nodes) ==
    \E i \in 1..Len(nodes) :
        \/ nodes[i].name = <<>>
        \/ nodes[i].children # None /\ HasEmptyName(nodes[i].children[1])

\* C21: the build of the path tree rejects a listing with a malformed path
\* (an empty segment, a leading slash, a trailing slash) instead of building
\* a tree with a node whose name is empty: no tree that a build returns has
\* a node with an empty name.
C21_MalformedPathsRejected == Built => ~HasEmptyName(root)

\* The changes of the call that write a file: each needs one blob.
Upserts(c) == {i \in 1..Len(input[c].changes) : input[c].changes[i].type # "delete"}

\* The calls of a kind that the call issued before the one at index and that
\* the remote answered with success.
DoneBefore(c, ops, index) == {i \in Issued(c, ops) : i < index /\ log[c][i].status = Ok}

\* The steps of a Deploy that come after the blobs.
AfterBlobs ==
    {"createTree", "createCommit", "upsertRef", "updateRef", "updateReposGet", "updateRefDefault"}

\* C22: within one Deploy the stages are strictly ordered: createTree is
\* issued only once a createBlob has succeeded for every file of the call
\* and none is still in flight, createCommit only after createTree returned,
\* the ref update only after createCommit returned, and no call of an
\* earlier stage comes after a call of a later one.
C22_StagesStrictlyOrdered ==
    \A c \in Calls :
        /\ pc[c] \in AfterBlobs => pending[c] = {}
        /\ \A t \in Issued(c, {"createTree"}) :
               /\ Cardinality(DoneBefore(c, {"createBlob"}, t)) = Cardinality(Upserts(c))
               /\ \A i \in Issued(c, {"createBlob"}) : i < t /\ log[c][i].status = Ok
        /\ \A k \in Issued(c, {"createCommit"}) :
               /\ DoneBefore(c, {"createTree"}, k) # {}
               /\ \A t \in Issued(c, {"createTree"}) : t < k
        /\ \A r \in Issued(c, {"updateRef", "createRef"}) :
               /\ DoneBefore(c, {"createCommit"}, r) # {}
               /\ \A k \in Issued(c, {"createCommit"}) : k < r

\* C22 witness: a Deploy that creates its blobs in parallel went through all
\* the stages with two blobs.
C22_Witness ==
    \E c \in Calls :
        /\ input[c].impl \in ParallelBlobImpls
        /\ Succeeded(c)
        /\ Cardinality(Issued(c, {"createBlob"})) = 2

\* The calls that wrote, or tried to write, to the remote and were answered
\* with an error.
FailedMutations(c) ==
    {i \in Issued(c, RemoteMutations) : log[c][i].status \notin {Ok, "dropped"}}

\* C23: a Deploy does not retry: once a call that writes to the remote has
\* failed (a rejected update of the ref included), the Deploy issues no
\* further ref update or other write, and it returns a failure.
C23_NoRetry ==
    \A c \in Calls :
        \A i \in FailedMutations(c) :
            /\ \A j \in Issued(c, RemoteMutations) : j > i => log[c][j].status = "dropped"
            /\ pc[c] = "done" => Failed(c)

\* The entries the loop of deployChanges has built that write a file.
BuiltUpserts(c) == {i \in Upserts(c) : i <= Len(treeEntries[c])}

\* C24: deployChanges issues no createBlob for a delete entry and exactly
\* one for each create/update entry: at every point the createBlob calls
\* issued are one per create/update entry built so far, and one more when
\* the loop stopped at a createBlob that failed; a delete entry carries the
\* null reference and no blob.
C24_NoBlobForDelete ==
    \A c \in Calls :
        input[c].impl = "deploy" =>
            /\ Cardinality(Issued(c, {"createBlob"})) =
                   Cardinality(BuiltUpserts(c)) + (IF BlobFailed(c) THEN 1 ELSE 0)
            /\ \A i \in 1..Len(treeEntries[c]) :
                   input[c].changes[i].type = "delete" <=> treeEntries[c][i].sha = NullSha

\* C24 witness: a deployChanges of one delete and one create/update went
\* through with a single createBlob.
C24_Witness ==
    \E c \in Calls :
        /\ input[c].impl = "deploy"
        /\ Succeeded(c)
        /\ Len(input[c].changes) = 2
        /\ Cardinality(Upserts(c)) = 1
        /\ Cardinality(Issued(c, {"createBlob"})) = 1

\* The ref updates and creations of the call that the remote carried out.
RefsMoved(c) == {i \in Issued(c, {"updateRef", "createRef"}) : log[c][i].status = Ok}

\* C26: the ref a Deploy moves in its final step is the ref whose head it
\* read at resolution and gave its commit as parent: it never moves a
\* branch other than the one it resolved.
C26_MovesTheResolvedRef ==
    \A c \in Calls : \A i \in RefsMoved(c) : log[c][i].ref = ResolvedBranch(c)

\* The commit of every Deploy that reported success is reachable from the
\* head of the branch the Deploy resolved.
NoLostCommit ==
    \A c \in Calls :
        (Succeeded(c) /\ newCommit[c] # None) =>
            /\ refs[ResolvedBranch(c)] # None
            /\ IsAncestor(newCommit[c][1], refs[ResolvedBranch(c)][1])

\* A branch head moves only to a commit whose parent is the head it had.
HeadAdvances ==
    \A b \in Branches :
        refs'[b] # refs[b] => refs'[b] # None /\ commits'[refs'[b][1]].parents = refs[b]

\* C27: under any interleaving of concurrent Deploy calls on one branch no
\* update is lost: the commit of every Deploy that reported success is
\* reachable from the branch head by parent links, and the branch head only
\* ever advances to a commit whose parent is the previous head.
C27_NoLostUpdate == []NoLostCommit /\ [][HeadAdvances]_vars

\* The path of the change at index is the path of no later change.
LastOfItsPath(c, index) ==
    \A j \in (index + 1)..Len(input[c].changes) :
        DeployedPath(c, input[c].changes[j]) # DeployedPath(c, input[c].changes[index])

\* C28: when the blobs are created in parallel, whatever the order in which
\* the createBlob calls complete, the entry of each path gets the blob of
\* that path's own content, the tree is composed from exactly these
\* entries, and in the tree each path has the blob of its own content; two
\* paths with the same content share the blob and are both in the tree.
C28_ParallelBlobsKeepTheirPaths ==
    \A c \in Calls :
        input[c].impl \in ParallelBlobImpls =>
            /\ \A i \in 1..Len(treeEntries[c]) :
                   /\ treeEntries[c][i].path = DeployedPath(c, input[c].changes[i])
                   /\ (i \notin pending[c] /\ ~BlobFailed(c)) =>
                          treeEntries[c][i].sha = BlobSha(input[c].changes[i].content[1])
                   /\ treeEntries[c][i].sha \in
                          {Unset} \cup {BlobSha(v[1]) : v \in {input[c].changes[i].content} \ {None}}
            /\ newTree[c] # None =>
                   /\ treeEntries[c] = WholeChangeSet(c)
                   /\ \A i \in 1..Len(input[c].changes) :
                          LastOfItsPath(c, i) =>
                              /\ DeployedPath(c, input[c].changes[i]) \in DOMAIN newTree[c][1]
                              /\ newTree[c][1][DeployedPath(c, input[c].changes[i])] =
                                     BlobSha(input[c].changes[i].content[1])

\* C28 witness: of two parallel createBlob calls for two paths with the
\* same content the second has completed while the first is still pending.
C28_Witness ==
    \E c \in Calls :
        /\ input[c].impl \in ParallelBlobImpls
        /\ Len(input[c].changes) = 2
        /\ input[c].changes[1].path # input[c].changes[2].path
        /\ input[c].changes[1].content = input[c].changes[2].content
        /\ pc[c] = "createBlob"
        /\ pending[c] = {1}
        /\ treeEntries[c][2].sha = BlobSha(input[c].changes[2].content[1])

\* The lists with the items of a list in every order.
Reorderings(items) ==
    {[i \in 1..Len(items) |-> items[f[i]]] : f \in Permutations(1..Len(items))}

DeploySettled == handler = "deploy" /\ handler' # "deploy"

\* The message set in this step reports a success.
ReportsSuccess == deployResult' # None /\ deployResult'[1].success

\* What a step of the Workspace does to the pending changes and the file
\* tree: they are cleared, and the reload started, by the step in which the
\* deploy settled with success and by no other step; the step in which it
\* settled otherwise leaves the pending changes, sets a failure message and
\* resets isDeploying.
ClearsIffSuccess ==
    /\ (DeploySettled /\ ReportsSuccess) =>
           /\ pendingChanges' = <<>>
           /\ handler' = "reload"
    /\ (DeploySettled /\ ~ReportsSuccess) =>
           /\ pendingChanges' = pendingChanges
           /\ deployResult' # None
           /\ deployResult'[1].message # ""
           /\ handler' = "idle"
           /\ ~isDeploying'
    /\ (pendingChanges' = <<>> /\ pendingChanges # <<>>) => (DeploySettled /\ ReportsSuccess)
    /\ (handler' = "reload" /\ handler # "reload") => (DeploySettled /\ ReportsSuccess)

\* C25: in the deploy handler of the Workspace the pending changes are
\* cleared and the file tree is reloaded if and only if the deploy reported
\* success; when it reports a failure or throws, the pending changes are
\* left as they are and a failure message is set; and in every case
\* isDeploying is eventually reset to false.
C25_DeployHandlerClearsIffSuccess ==
    [][ClearsIffSuccess]_vars /\ (isDeploying ~> ~isDeploying)

\* C25 witness: a deploy that failed has left its pending changes and a
\* failure message, and isDeploying is false again.
C25_Witness ==
    /\ component \in Components
    /\ handler = "idle"
    /\ ~isDeploying
    /\ pendingChanges # <<>>
    /\ deployResult # None
    /\ ~deployResult[1].success

\* What may be shown for a file: its text, or what a failed load leaves.
ShownFor(path) == {FileText(path), "// Failed to load file content", ""}

\* C30: once no load of a file's content is in flight, the content shown is
\* the content of the selected file (a late answer for a file selected
\* earlier is never shown for the one selected now), and loadingFile is
\* false only when no load is pending.
C30_ShownContentIsSelectedFile ==
    /\ (loads = <<>> /\ selectedFile # None) => fileContent \in ShownFor(selectedFile[1])
    /\ ~loadingFile => loads = <<>>

====
